---------------------------- MODULE Spec2Model ----------------------------
(***************************************************************************)
(* Model of the feature-extraction and evaluation pipeline:                *)
(*   code/classification/randomforest_hist_classification.py               *)
(*       HistogramTransformer, RandomForestClassification                  *)
(*   code/prediction/xgboost_prediction.py                                 *)
(*       XGBoostPredict.preprocess_as_prediction                           *)
(*                                                                         *)
(* Numeric arrays are sequences (1-based); a tensor of shape (N, V, D) is  *)
(* X[n][v][d].  Day values are integers.  Library calls (numpy, sklearn,   *)
(* imblearn) are modelled by what they do on these values.                 *)
(***************************************************************************)
EXTENDS Integers, Sequences, FiniteSets, TLC

\* ------------------------------------------------------------------ bounds
MaxSamples == 3      \* N of a batch handed to transform directly
MaxVars    == 2      \* V
MaxDays    == 2      \* D
MaxCells   == 6      \* N * V * D of a batch handed to transform directly
MaxVal     == 2      \* day values range over 0..MaxVal
MaxBins    == 3      \* n_bins ranges over 1..MaxBins
EvalMaxN   == 4      \* samples of the training set of an evaluation run
LabelMaxN    == 3    \* samples of a raw label tensor handed to _get_labels
LabelMaxDays == 3    \* days of a raw label tensor handed to _get_labels
PredMaxClass == 9    \* samples of the larger class of a prediction data set
PredMaxVars  == 2    \* feature_count of a prediction data set ranges over 1..
CutoffPoint  == 1    \* cutoff_point; the raw series are one day longer
MaxRuns      == 2    \* runs of preprocess_as_prediction on one cache path
MaxFolds   == 2      \* cv_folds ranges over 2..MaxFolds

\* --------------------------------------------------------- program constants
NumVariables == 3    \* _get_raw_data: TEMP_60_90, WIND_60, WIND_65
TestSizeInv  == 5    \* train_test_split(test_size=0.2): one sample in five
KNeighbors   == 5    \* SMOTE(): k_neighbors of the default constructor

VARIABLES
    X,                   \* the batch handed to HistogramTransformer
    feature_extraction,  \* the HistogramTransformer object: its attributes
    hist_out,            \* what the last transform call returned (or raised)
    hist_call,           \* the last call made on the transformer
    rf,                  \* the RandomForestClassification object and the data
                         \* its data managers return
    eval_out,            \* what evaluate_simulated / evaluate_real returned
    sink,                \* the MetricRecords written by Output.write_output
    chart,               \* the bar chart rendered by plot
    cv_log,              \* the transformer calls the pipeline made, per fit
    upstream,            \* what PredictionSet reads: labels and raw tensor
    cache_file,          \* the file at pickle_path: <<>> or <<its content>>
    pred_out,            \* the last run of preprocess_as_prediction
    runs                 \* runs of preprocess_as_prediction so far

histVars == <<X, feature_extraction, hist_out, hist_call>>
evalVars == <<rf, eval_out, sink, chart, cv_log>>
predVars == <<upstream, cache_file, pred_out, runs>>

vars == <<X, feature_extraction, hist_out, hist_call,
          rf, eval_out, sink, chart, cv_log,
          upstream, cache_file, pred_out, runs>>

\* ------------------------------------------------------------ array helpers
RECURSIVE SumSeq(_)
SumSeq(s) == IF s = <<>> THEN 0 ELSE Head(s) + SumSeq(Tail(s))

RECURSIVE Concat(_)
Concat(ss) == IF ss = <<>> THEN <<>> ELSE Head(ss) \o Concat(Tail(ss))

SetMin(S) == CHOOSE m \in S : \A x \in S : m <= x
SetMax(S) == CHOOSE m \in S : \A x \in S : m >= x

\* values of a 2-D array (n_samples, n_days)
Values2(array) == { array[n][d] : n \in DOMAIN array, d \in 1..Len(array[1]) }

np_min(array) == SetMin(Values2(array))
np_max(array) == SetMax(Values2(array))

\* ------------------------------------------------------------ np.histogram
\* Edges are kept doubled so that the half-unit widening stays integral.
\* numpy _get_outer_edges: a range with first == last is widened by 0.5 on
\* either side.
np_get_outer_edges_nowiden(first, last) == [lo2 |-> 2 * first, hi2 |-> 2 * last]

np_get_outer_edges(first, last) ==
    IF first = last
    THEN [lo2 |-> 2 * first - 1, hi2 |-> 2 * last + 1]
    ELSE [lo2 |-> 2 * first, hi2 |-> 2 * last]

\* index of the equal-width bin of x: floor((x - first) / (last - first) * bins),
\* the right edge of the range belonging to the last bin
np_bin_index(x, e, bins) ==
    LET i == ((2 * x - e.lo2) * bins) \div (e.hi2 - e.lo2)
    IN  IF i = bins THEN bins - 1 ELSE i

\* np.histogram(a, bins=bins, range=(first, last))[0]; values outside the
\* range are not counted.  A range of zero width cannot be binned.
np_histogram(a, bins, first, last) ==
    LET e == np_get_outer_edges(first, last) IN
    IF bins < 1 \/ first > last \/ e.hi2 = e.lo2
    THEN [ok |-> FALSE, counts |-> <<>>]
    ELSE LET keep == { d \in DOMAIN a : a[d] >= first /\ a[d] <= last }
         IN  [ok |-> TRUE,
              counts |-> [b \in 1..bins |->
                  Cardinality({ d \in keep : np_bin_index(a[d], e, bins) = b - 1 })]]

\* ------------------------------------------------- HistogramTransformer
\* _histograms_for_variable with a range that stops short of the batch maximum
histograms_for_variable_shortrange(array, n_bins) ==
    [n \in DOMAIN array |->
        np_histogram(array[n], n_bins, np_min(array),
                     IF np_max(array) > np_min(array)
                     THEN np_max(array) - 1 ELSE np_max(array))]

\* _histograms_for_variable: array of shape (n_samples, n_days)
histograms_for_variable(array, n_bins) ==
    LET hist_range == <<np_min(array), np_max(array)>> IN
    [n \in DOMAIN array |->
        np_histogram(array[n], n_bins, hist_range[1], hist_range[2])]

\* _histograms: one call per variable on data[:, i, :], then swapaxes(0, 1)
histograms(data, n_bins) ==
    LET n_features == Len(data[1])
        result == [i \in 1..n_features |->
                     histograms_for_variable(
                         [n \in DOMAIN data |-> data[n][i]], n_bins)]
    IN  [n \in DOMAIN data |-> [i \in 1..n_features |-> result[i][n]]]

\* transform with the reshape done bin-major
transform_binmajor(self, data) ==
    LET hf == histograms(data, self.n_bins)
        V  == Len(data[1])
    IN  IF \E n \in DOMAIN hf : \E i \in DOMAIN hf[n] : ~hf[n][i].ok
        THEN [called |-> TRUE, ok |-> FALSE, value |-> <<>>]
        ELSE [called |-> TRUE, ok |-> TRUE,
              value |-> [n \in DOMAIN hf |->
                  Concat([b \in 1..self.n_bins |->
                             [i \in 1..V |-> hf[n][i].counts[b]]])]]

\* transform: reshape (n_samples, n_features, n_bins) to
\* (n_samples, n_features * n_bins); an exception of np.histogram propagates
transform(self, data) ==
    LET hf == histograms(data, self.n_bins) IN
    IF \E n \in DOMAIN hf : \E i \in DOMAIN hf[n] : ~hf[n][i].ok
    THEN [called |-> TRUE, ok |-> FALSE, value |-> <<>>]
    ELSE [called |-> TRUE, ok |-> TRUE,
          value |-> [n \in DOMAIN hf |->
              Concat([i \in DOMAIN hf[n] |-> hf[n][i].counts])]]

\* fit: no fitting required, returns self
fit(self, data) == self

\* __init__
HistogramTransformer(nb) == [n_bins |-> nb]

\* ------------------------------------------------------------ batches
Series(D) == [1..D -> 0..MaxVal]
Tensors(N, V, D) == [1..N -> [1..V -> Series(D)]]

Shapes == { s \in (1..MaxSamples) \X (1..MaxVars) \X (1..MaxDays) :
              s[1] * s[2] * s[3] <= MaxCells }

NoCall == [called |-> FALSE, ok |-> TRUE, value |-> <<>>]

NoModel == [n_bins |-> 0]
NoEval == [called |-> FALSE]

NoRun == [called |-> FALSE]

PredIdle ==
    /\ upstream = <<>>
    /\ cache_file = <<>>
    /\ pred_out = NoRun
    /\ runs = 0

EvalIdle ==
    /\ rf = NoModel
    /\ eval_out = NoEval
    /\ sink = <<>>
    /\ chart = <<>>
    /\ cv_log = <<>>

InitHist ==
    /\ \E s \in Shapes : X \in Tensors(s[1], s[2], s[3])
    /\ \E nb \in 1..MaxBins : feature_extraction = HistogramTransformer(nb)
    /\ hist_out = NoCall
    /\ hist_call = "none"
    /\ EvalIdle
    /\ PredIdle

Fit ==
    /\ hist_call # "fit"
    /\ feature_extraction' = fit(feature_extraction, X)
    /\ hist_call' = "fit"
    /\ UNCHANGED <<X, hist_out>>
    /\ UNCHANGED evalVars
    /\ UNCHANGED predVars

Transform ==
    /\ hist_call # "transform"
    /\ hist_out' = transform(feature_extraction, X)
    /\ hist_call' = "transform"
    /\ UNCHANGED <<X, feature_extraction>>
    /\ UNCHANGED evalVars
    /\ UNCHANGED predVars

NextHist == Fit \/ Transform

SpecHist == InitHist /\ [][NextHist]_vars

\* ------------------------------------------------------ claims C1, C2, C4
BatchN == Len(X)
BatchV == Len(X[1])
BatchD == Len(X[1][1])
BatchB == feature_extraction.n_bins

\* all (sample, day) values of variable v in the batch
VarValues(v) == { X[n][v][d] : n \in 1..BatchN, d \in 1..BatchD }
VarMin(v) == SetMin(VarValues(v))
VarMax(v) == SetMax(VarValues(v))

\* x lies in bin b (0-based) of B equal-width bins spanning [lo2/2, hi2/2]:
\* edge_b <= x < edge_(b+1), the last bin closed on the right
InBin(x, b, B, lo2, hi2) ==
    LET w == hi2 - lo2 IN
    /\ B * lo2 + b * w <= B * 2 * x
    /\ IF b = B - 1 THEN B * 2 * x <= B * lo2 + (b + 1) * w
                    ELSE B * 2 * x <  B * lo2 + (b + 1) * w

DaysInBin(n, v, b, lo2, hi2) ==
    Cardinality({ d \in 1..BatchD : InBin(X[n][v][d], b, BatchB, lo2, hi2) })

ShapeIsNByVB ==
    /\ hist_out.ok
    /\ Len(hist_out.value) = BatchN
    /\ \A n \in 1..BatchN : Len(hist_out.value[n]) = BatchV * BatchB

\* C1 as stated: N rows, V*B columns, column v*B + b holds the number of
\* days of sample n's variable-v series in bin b of the B equal-width bins
\* spanning [min, max] of variable v over the batch.
C1_Original_BinsSpanMinMax ==
    hist_out.called =>
        /\ ShapeIsNByVB
        /\ \A n \in 1..BatchN : \A v \in 0..BatchV - 1 : \A b \in 0..BatchB - 1 :
              hist_out.value[n][v * BatchB + b + 1] =
                  DaysInBin(n, v + 1, b, 2 * VarMin(v + 1), 2 * VarMax(v + 1))

\* C1 (amended): transform returns N rows and V*B columns, variable-major and
\* bin-minor; column v*B + b counts the days of sample n's variable-v series
\* in bin b of B equal-width bins spanning [min, max] of variable v over the
\* batch when min < max, and spanning [min - 0.5, max + 0.5] when min = max.
C1_HistogramLayout ==
    hist_out.called =>
        /\ ShapeIsNByVB
        /\ \A n \in 1..BatchN : \A v \in 0..BatchV - 1 : \A b \in 0..BatchB - 1 :
              hist_out.value[n][v * BatchB + b + 1] =
                  IF VarMin(v + 1) < VarMax(v + 1)
                  THEN DaysInBin(n, v + 1, b, 2 * VarMin(v + 1), 2 * VarMax(v + 1))
                  ELSE DaysInBin(n, v + 1, b, 2 * VarMin(v + 1) - 1,
                                 2 * VarMax(v + 1) + 1)

\* a transformed batch of several samples with a constant and a varying
\* variable, whose two histograms differ for some sample
C1_Witness ==
    /\ hist_out.called /\ hist_out.ok
    /\ BatchN >= 2 /\ BatchV = 2 /\ BatchB = 3
    /\ VarMin(1) = VarMax(1) /\ VarMin(2) < VarMax(2)
    /\ \E n \in 1..BatchN :
          SubSeq(hist_out.value[n], 1, 3) # SubSeq(hist_out.value[n], 4, 6)

\* C2: for every sample and variable the B bin counts sum to D; values equal
\* to the batch minimum or maximum of the variable are counted too.
C2_BinCountsSumToDays ==
    hist_out.called =>
        /\ hist_out.ok
        /\ \A n \in 1..BatchN : \A v \in 0..BatchV - 1 :
              SumSeq(SubSeq(hist_out.value[n], v * BatchB + 1,
                            (v + 1) * BatchB)) = BatchD

\* a sample whose series holds both the batch minimum and the batch maximum
C2_Witness ==
    /\ hist_out.called /\ hist_out.ok
    /\ BatchN >= 2 /\ BatchD = 2 /\ BatchB >= 2
    /\ \E n \in 1..BatchN : \E v \in 1..BatchV :
          /\ VarMin(v) < VarMax(v)
          /\ X[n][v][1] = VarMin(v) /\ X[n][v][2] = VarMax(v)

\* C4: a variable constant over the batch does not make transform raise, and
\* each sample's histogram of it has all D days in one bin, zero elsewhere.
C4_ConstantVariableOneBin ==
    hist_out.called =>
        \A v \in 0..BatchV - 1 :
            VarMin(v + 1) = VarMax(v + 1) =>
                /\ hist_out.ok
                /\ \A n \in 1..BatchN :
                      \E b \in 1..BatchB :
                          /\ hist_out.value[n][v * BatchB + b] = BatchD
                          /\ \A c \in 1..BatchB :
                                c # b => hist_out.value[n][v * BatchB + c] = 0

C4_Witness ==
    /\ hist_out.called /\ hist_out.ok
    /\ BatchN >= 2 /\ BatchD = 2 /\ BatchB >= 2
    /\ \E v \in 1..BatchV : VarMin(v) = VarMax(v)

\* ------------------------------------------------------------- fractions
\* Scores are fractions <<numerator, denominator>>; <<0, 0>> is NaN.
\* Results are kept in lowest terms.
NaN == <<0, 0>>

RECURSIVE Gcd(_, _)
Gcd(a, b) == IF b = 0 THEN a ELSE Gcd(b, a % b)

FracReduce(a) ==
    IF a[2] = 0 THEN NaN
    ELSE LET g == Gcd(IF a[1] < 0 THEN 0 - a[1] ELSE a[1], a[2])
         IN  <<a[1] \div g, a[2] \div g>>

FracAdd(a, b) == FracReduce(<<a[1] * b[2] + b[1] * a[2], a[2] * b[2]>>)
FracSub(a, b) == FracReduce(<<a[1] * b[2] - b[1] * a[2], a[2] * b[2]>>)
FracMul(a, b) == FracReduce(<<a[1] * b[1], a[2] * b[2]>>)
FracEq(a, b)  == (a[2] = 0) = (b[2] = 0) /\ a[1] * b[2] = b[1] * a[2]

RECURSIVE FracSum(_)
FracSum(s) == IF s = <<>> THEN <<0, 1>> ELSE FracAdd(Head(s), FracSum(Tail(s)))

\* np.mean, and np.std given by its square (mean of squares - square of mean)
np_mean(s) == LET t == FracSum(s) IN FracReduce(<<t[1], t[2] * Len(s)>>)
np_std_squared(s) ==
    LET m == np_mean(s)
    IN  FracSub(np_mean([i \in DOMAIN s |-> FracMul(s[i], s[i])]), FracMul(m, m))

\* data[idx] for an index set idx, rows kept in order
Select(data, idx) ==
    LET F[i \in 0..Len(data)] ==
            IF i = 0 THEN <<>>
            ELSE IF i \in idx THEN Append(F[i - 1], data[i]) ELSE F[i - 1]
    IN  F[Len(data)]

\* ------------------------------------------------------- sklearn.metrics
CountWhere(yt, yp, t, p) ==
    Cardinality({ i \in DOMAIN yt : yt[i] = t /\ yp[i] = p })

\* f1_score: 2TP / (2TP + FP + FN), 0.0 when there is nothing to count
f1_score(yt, yp) ==
    LET tp == CountWhere(yt, yp, 1, 1)
        d  == 2 * tp + CountWhere(yt, yp, 0, 1) + CountWhere(yt, yp, 1, 0)
    IN  IF d = 0 THEN <<0, 1>> ELSE <<2 * tp, d>>

\* roc_auc_score on predicted labels: (TPR + TNR) / 2; not defined when
\* y_true holds one class only
roc_auc_score(yt, yp) ==
    LET pos == CountWhere(yt, yp, 1, 1) + CountWhere(yt, yp, 1, 0)
        neg == CountWhere(yt, yp, 0, 1) + CountWhere(yt, yp, 0, 0)
    IN  IF pos = 0 \/ neg = 0 THEN NaN
        ELSE <<CountWhere(yt, yp, 1, 1) * neg + CountWhere(yt, yp, 0, 0) * pos,
               2 * pos * neg>>

accuracy_score(yt, yp) ==
    <<CountWhere(yt, yp, 1, 1) + CountWhere(yt, yp, 0, 0), Len(yt)>>

\* self.metric_txt, self.metrics
metric_txt == <<"F1", "ROCAUC", "Accuracy">>
metrics(i, yt, yp) ==
    IF i = 1 THEN f1_score(yt, yp)
    ELSE IF i = 2 THEN roc_auc_score(yt, yp)
    ELSE accuracy_score(yt, yp)

\* An undefined score either raises ValueError or is reported as NaN,
\* depending on the scikit-learn release.
UndefinedScoreModes == {"raise", "nan"}

\* ----------------------------------------------- RandomForestClassification
\* _get_labels with the reduction over all days instead of any day
get_labels_alldays(raw_labels) ==
    [n \in DOMAIN raw_labels |->
        IF \A d \in DOMAIN raw_labels[n] : raw_labels[n][d] = 1 THEN 1 ELSE 0]

\* _get_labels: lambda a: 1 if 1 in a else 0, along axis 1
get_labels(raw_labels) ==
    [n \in DOMAIN raw_labels |->
        IF \E d \in DOMAIN raw_labels[n] : raw_labels[n][d] = 1 THEN 1 ELSE 0]

\* _get_pipeline: a new HistogramTransformer(n_bins) followed by the classifier
get_pipeline(self) ==
    [feature_extraction |-> HistogramTransformer(self.n_bins),
     model |-> self.classifier]

\* The fitted classifier is opaque: its answer for a sample is given by the
\* sample's true label, classifier[1] for a negative, classifier[2] for a
\* positive sample.
predict(model, y) == [i \in DOMAIN y |-> model[y[i] + 1]]

\* Pipeline.fit with the transformer applied to the whole data set first
pipeline_fit_transform_global(pipe, data, idx) ==
    LET t  == fit(pipe.feature_extraction, data)
        tr == transform(t, data)
    IN  [transformer |-> t,
         features |-> [tr EXCEPT !.value = Select(tr.value, idx)]]

\* Pipeline.fit on data[idx]: fit_transform of the transformer, that is
\* fit(X).transform(X), on the rows handed to fit
pipeline_fit_transform(pipe, data, idx) ==
    LET batch == Select(data, idx)
        t     == fit(pipe.feature_extraction, batch)
    IN  [transformer |-> t, features |-> transform(t, batch)]

\* StratifiedKFold(n_splits, shuffle=True).split raises ValueError when
\* n_splits exceeds the number of samples or the number of members of every
\* class; fewer members than n_splits in some class only is a warning.
Classes(y) == { y[i] : i \in DOMAIN y }
ClassCount(y, c) == Cardinality({ i \in DOMAIN y : y[i] = c })

StratifiedKFoldRaises(y, n_splits) ==
    \/ n_splits > Len(y)
    \/ \A c \in Classes(y) : n_splits > ClassCount(y, c)

\* the test fold of every sample: each class is spread evenly over the folds
TestFolds(y, n_splits) ==
    { tf \in [DOMAIN y -> 1..n_splits] :
        \A c \in Classes(y) : \A f, g \in 1..n_splits :
            Cardinality({ i \in DOMAIN y : y[i] = c /\ tf[i] = f })
              - Cardinality({ i \in DOMAIN y : y[i] = c /\ tf[i] = g }) <= 1 }

\* one fold of cross_validate: the cloned pipeline is fit on the train rows
\* and scored on the test rows with every scorer
fit_and_score(pipe, data, y, tf, f) ==
    LET train  == { i \in DOMAIN y : tf[i] # f }
        test   == { i \in DOMAIN y : tf[i] = f }
        fitted == pipeline_fit_transform(pipe, data, train)
        y_test == Select(y, test)
        y_pred == predict(pipe.model, y_test)
    IN  [train |-> train, test |-> test,
         transformer |-> fitted.transformer,
         train_features |-> fitted.features,
         test_features |-> transform(fitted.transformer, Select(data, test)),
         scores |-> [i \in 1..3 |-> metrics(i, y_test, y_pred)]]

\* cross_validate(pipeline, X, y, cv=cv, scoring=scorers)
cross_validate(pipe, data, y, n_splits, tf, mode) ==
    IF StratifiedKFoldRaises(y, n_splits)
    THEN [ok |-> FALSE, error |-> "StratifiedKFold.split", folds |-> <<>>,
          test_scores |-> <<>>]
    ELSE LET folds == [f \in 1..n_splits |-> fit_and_score(pipe, data, y, tf, f)]
         IN  IF mode = "raise" /\ \E f \in 1..n_splits : \E i \in 1..3 :
                    folds[f].scores[i] = NaN
             THEN [ok |-> FALSE, error |-> "scorer", folds |-> folds,
                   test_scores |-> <<>>]
             ELSE [ok |-> TRUE, error |-> "", folds |-> folds,
                   test_scores |-> [i \in 1..3 |->
                       [f \in 1..n_splits |-> folds[f].scores[i]]]]

\* plot: ply.bar(self.metric_txt, scores_mean, yerr=scores_std, ...)
plot(scores_mean, scores_std) ==
    [x |-> metric_txt, height |-> scores_mean, yerr_squared |-> scores_std]

\* Output(**output_default_args, metric=metric, scores=score)
Output(self, data_type, metric, scores) ==
    [classifier |-> "randomforest", task |-> "classification",
     data_type |-> data_type, definition |-> self.definition,
     metric |-> metric, scores |-> scores]

\* out_metrics with the scores of F1 and AUROC exchanged
out_metrics_swapped(scores) ==
    << <<"f1", scores[2]>>, <<"auroc", scores[1]>>, <<"accuracy", scores[3]>> >>

\* out_metrics = ((Metric.f1, scores[0]), (Metric.auroc, scores[1]),
\*                (Metric.accuracy, scores[2]))
out_metrics(scores) ==
    << <<"f1", scores[1]>>, <<"auroc", scores[2]>>, <<"accuracy", scores[3]>> >>

\* ------------------------------------------------------------ evaluation
\* evaluate_simulated(plot): cross-validation, mean and std per metric, the
\* optional plot, one Output per metric, the return value
EvaluateSimulated ==
    /\ rf # NoModel
    /\ ~eval_out.called
    /\ \E do_plot \in BOOLEAN, mode \in UndefinedScoreModes :
       LET pipeline     == get_pipeline(rf)
           labels_train == get_labels(rf.raw_labels_train)
       IN  \E tf \in IF StratifiedKFoldRaises(labels_train, rf.cv_folds)
                     THEN {<<>>} ELSE TestFolds(labels_train, rf.cv_folds) :
           \E cv \in {cross_validate(pipeline, rf.raw_data_train, labels_train,
                                      rf.cv_folds, tf, mode)} :
           LET scores       == cv.test_scores
               scores_means == [i \in 1..3 |-> np_mean(scores[i])]
               scores_std   == [i \in 1..3 |-> np_std_squared(scores[i])]
               om           == out_metrics(scores)
           IN  /\ cv_log' = cv.folds
               /\ IF cv.ok
                  THEN /\ chart' = IF do_plot
                                   THEN <<plot(scores_means, scores_std)>>
                                   ELSE <<>>
                       /\ sink' = sink \o
                             [j \in 1..3 |->
                                 Output(rf, "simulated", om[j][1], om[j][2])]
                       /\ eval_out' = [called |-> TRUE, op |-> "simulated",
                                       ok |-> TRUE, error |-> "",
                                       plot |-> do_plot,
                                       test_scores |-> scores,
                                       scores_means |-> scores_means,
                                       scores_std |-> scores_std]
                  ELSE /\ chart' = chart
                       /\ sink' = sink
                       /\ eval_out' = [called |-> TRUE, op |-> "simulated",
                                       ok |-> FALSE, error |-> cv.error,
                                       plot |-> do_plot,
                                       test_scores |-> <<>>,
                                       scores_means |-> <<>>,
                                       scores_std |-> <<>>]
    /\ UNCHANGED <<rf>>
    /\ UNCHANGED histVars
    /\ UNCHANGED predVars

\* evaluate_real: fit on the whole training set, predict the test set, each
\* metric once, one Output per metric with a single-element score list
EvaluateReal ==
    /\ rf # NoModel
    /\ ~eval_out.called
    /\ \E mode \in UndefinedScoreModes :
       LET pipeline     == get_pipeline(rf)
           labels_train == get_labels(rf.raw_labels_train)
           fitted       == pipeline_fit_transform(pipeline, rf.raw_data_train,
                                                  DOMAIN rf.raw_data_train)
           labels_test  == get_labels(rf.raw_labels_test)
           test_feat    == transform(fitted.transformer, rf.raw_data_test)
           pred_test    == predict(pipeline.model, labels_test)
           scores       == [i \in 1..3 |-> metrics(i, labels_test, pred_test)]
           om           == out_metrics(scores)
           raised       == mode = "raise" /\ \E i \in 1..3 : scores[i] = NaN
       IN  /\ cv_log' = << [train |-> DOMAIN rf.raw_data_train, test |-> {},
                            transformer |-> fitted.transformer,
                            train_features |-> fitted.features,
                            test_features |-> test_feat,
                            scores |-> scores] >>
           /\ sink' = IF raised THEN sink
                      ELSE sink \o [j \in 1..3 |->
                               Output(rf, "real", om[j][1], <<om[j][2]>>)]
           /\ eval_out' = [called |-> TRUE, op |-> "real", ok |-> ~raised,
                           error |-> IF raised THEN "metric" ELSE "",
                           plot |-> FALSE,
                           test_scores |-> IF raised THEN <<>> ELSE scores,
                           scores_means |-> <<>>, scores_std |-> <<>>]
    /\ UNCHANGED <<rf, chart>>
    /\ UNCHANGED histVars
    /\ UNCHANGED predVars

\* --------------------------------------------------- evaluation data sets
\* A sample of the training tensor: NumVariables series of one day each.
SampleOf(l) ==
    [v \in 1..NumVariables |->
        IF v = 1 THEN <<l>> ELSE IF v = 2 THEN <<MaxVal - l>> ELSE <<0>>]

\* per-sample label series: no positive day, or the last of two days positive
LabelSeriesOf(b) == <<0, b>>

\* what the classifier answers for a negative and for a positive sample
Classifiers == [1..2 -> {0, 1}]
Oracle == <<0, 1>>

\* RandomForestClassification.__init__ and the data its managers return
RandomForestClassification(n_bins, cv_folds, clf, levels, labels, test_labels) ==
    [definition |-> "CP07", n_bins |-> n_bins, cv_folds |-> cv_folds,
     classifier |-> clf,
     raw_data_train |-> [n \in DOMAIN levels |-> SampleOf(levels[n])],
     raw_labels_train |-> [n \in DOMAIN labels |-> LabelSeriesOf(labels[n])],
     raw_data_test |-> [n \in DOMAIN test_labels |-> SampleOf(n % (MaxVal + 1))],
     raw_labels_test |-> [n \in DOMAIN test_labels |->
                             LabelSeriesOf(test_labels[n])]]

HistIdle ==
    /\ X = <<>>
    /\ feature_extraction = NoModel
    /\ hist_out = NoCall
    /\ hist_call = "none"
    /\ PredIdle

\* Either the series vary (labels alternate, the classifier is right; fewer
\* than EvalMaxN samples), or the labels and the classifier vary (the series
\* are fixed; two folds for EvalMaxN samples).
InitEval ==
    /\ HistIdle
    /\ eval_out = NoEval
    /\ sink = <<>>
    /\ chart = <<>>
    /\ cv_log = <<>>
    /\ \E N \in 2..EvalMaxN, k \in 2..MaxFolds :
        \/ \E levels \in [1..N -> 0..MaxVal] :
              /\ N < EvalMaxN
              /\ rf = RandomForestClassification(MaxBins, k, Oracle, levels,
                          [n \in 1..N |-> n % 2], <<0, 1>>)
        \/ \E labels \in [1..N -> {0, 1}], clf \in Classifiers,
              test_labels \in {<<0, 1>>, <<0, 0>>} :
              /\ N = EvalMaxN => k = 2
              /\ rf = RandomForestClassification(MaxBins, k, clf,
                          [n \in 1..N |-> n % (MaxVal + 1)], labels, test_labels)

NextEval == EvaluateSimulated \/ EvaluateReal

SpecEval == InitEval /\ [][NextEval]_vars


\* _get_labels(train) called on its own
GetLabels ==
    /\ rf # NoModel
    /\ ~eval_out.called
    /\ \E train \in BOOLEAN :
         eval_out' = [called |-> TRUE, op |-> "get_labels", train |-> train,
                      value |-> get_labels(IF train THEN rf.raw_labels_train
                                           ELSE rf.raw_labels_test)]
    /\ UNCHANGED <<rf, sink, chart, cv_log>>
    /\ UNCHANGED histVars
    /\ UNCHANGED predVars

\* raw label tensors: one 0/1 indicator per sample and day
RawLabels(N, D) == [1..N -> [1..D -> {0, 1}]]

InitLabels ==
    /\ HistIdle
    /\ eval_out = NoEval
    /\ sink = <<>>
    /\ chart = <<>>
    /\ cv_log = <<>>
    /\ \E N \in 1..LabelMaxN, D \in 1..LabelMaxDays :
       \E a \in RawLabels(N, D), b \in RawLabels(1, D) :
          rf = [definition |-> "CP07", raw_labels_train |-> a,
                raw_labels_test |-> b]

NextLabels == GetLabels

SpecLabels == InitLabels /\ [][NextLabels]_vars

\* ---------------------------------------------------------------- claim C5
RawLabelsRead == IF eval_out.train THEN rf.raw_labels_train
                 ELSE rf.raw_labels_test

\* C5: _get_labels returns one entry per sample: 1 if any day of the sample's
\* label series is positive, 0 if every day is non-positive.
C5_AnyPositiveDay ==
    (eval_out.called /\ eval_out.op = "get_labels") =>
        /\ Len(eval_out.value) = Len(RawLabelsRead)
        /\ \A n \in 1..Len(RawLabelsRead) :
              /\ (\E d \in DOMAIN RawLabelsRead[n] : RawLabelsRead[n][d] > 0)
                    => eval_out.value[n] = 1
              /\ (\A d \in DOMAIN RawLabelsRead[n] : RawLabelsRead[n][d] <= 0)
                    => eval_out.value[n] = 0

\* labels reduced for a sample with one positive day among negative ones, a
\* sample with no positive day and a sample with only positive days
C5_Witness ==
    /\ eval_out.called /\ eval_out.op = "get_labels" /\ eval_out.train
    /\ Len(rf.raw_labels_train) = 3
    /\ rf.raw_labels_train[1] = <<0, 1, 0>>
    /\ rf.raw_labels_train[2] = <<0, 0, 0>>
    /\ rf.raw_labels_train[3] = <<1, 1, 1>>
    /\ eval_out.value = <<1, 0, 1>>

\* ---------------------------------------------------------------- claim C3
SimulatedDone == eval_out.called /\ eval_out.op = "simulated"

\* the training tensor with the samples of a set `held` replaced
HeldOutVariants(data, held) ==
    { [i \in DOMAIN data |-> IF i \in held THEN SampleOf(g[i]) ELSE data[i]] :
        g \in [held -> 0..MaxVal] }

\* every transform call the pipelines of the run made: <<input, output>>
TransformCalls ==
    UNION { { <<Select(rf.raw_data_train, cv_log[f].train),
                cv_log[f].train_features>>,
              <<Select(rf.raw_data_train, cv_log[f].test),
                cv_log[f].test_features>> } : f \in DOMAIN cv_log }

\* C3: the features of a batch depend on the batch and n_bins only: fit
\* leaves the transformer as constructed, two transform calls with the same
\* input return the same output, and in every fold the features of the
\* training-fold samples are the same whatever the held-out samples are.
C3_FeaturesDependOnBatchOnly ==
    SimulatedDone =>
        /\ \A f \in DOMAIN cv_log :
              /\ cv_log[f].transformer = HistogramTransformer(rf.n_bins)
              /\ \A Y \in HeldOutVariants(rf.raw_data_train, cv_log[f].test) :
                    pipeline_fit_transform(get_pipeline(rf), Y,
                                           cv_log[f].train).features
                        = cv_log[f].train_features
        /\ \A c1, c2 \in TransformCalls : c1[1] = c2[1] => c1[2] = c2[2]

\* a finished cross-validation with a fold whose held-out samples, had they
\* been different, would have changed the range of the whole data set
C3_Witness ==
    /\ SimulatedDone /\ eval_out.ok
    /\ \E f \in DOMAIN cv_log :
          /\ Cardinality(cv_log[f].train) >= 2
          /\ cv_log[f].train_features.ok
          /\ \E Y \in HeldOutVariants(rf.raw_data_train, cv_log[f].test) :
                Select(transform(HistogramTransformer(rf.n_bins), Y).value,
                       cv_log[f].train)
                  # Select(transform(HistogramTransformer(rf.n_bins),
                                     rf.raw_data_train).value, cv_log[f].train)

\* ---------------------------------------------------------------- claim C6
LabelsTrain == get_labels(rf.raw_labels_train)

\* C6 as stated: with fewer than cv_folds positive training samples,
\* evaluate_simulated fails at stratified fold construction, returns no
\* scores and writes no MetricRecord.
C6_Original_FewPositivesAbort ==
    (SimulatedDone /\ ClassCount(LabelsTrain, 1) < rf.cv_folds) =>
        /\ ~eval_out.ok
        /\ eval_out.error = "StratifiedKFold.split"
        /\ eval_out.scores_means = <<>> /\ eval_out.scores_std = <<>>
        /\ sink = <<>>

\* ---------------------------------------------------------------- claim C7
MetricKinds == <<"f1", "auroc", "accuracy">>

\* the score of metric kind m (by name) for true and predicted labels
ScoreOfKind(m, yt, yp) ==
    IF m = "f1" THEN f1_score(yt, yp)
    ELSE IF m = "auroc" THEN roc_auc_score(yt, yp)
    ELSE accuracy_score(yt, yp)

FoldTrueLabels(f) == Select(LabelsTrain, cv_log[f].test)
LabelsTest == get_labels(rf.raw_labels_test)

\* C7: a completed run has written exactly one MetricRecord per metric; a
\* record of evaluate_simulated holds the cv_folds per-fold scores of its own
\* metric, the returned means and stds being those of the same lists in the
\* same order; a record of evaluate_real holds the one test-set score of its
\* own metric.
C7_OneRecordPerMetric ==
    (eval_out.called /\ eval_out.op \in {"simulated", "real"} /\ eval_out.ok) =>
        /\ Len(sink) = 3
        /\ \A j \in 1..3 : sink[j].metric = MetricKinds[j]
        /\ eval_out.op = "simulated" =>
              \A j \in 1..3 :
                 /\ sink[j].data_type = "simulated"
                 /\ Len(sink[j].scores) = rf.cv_folds
                 /\ \A f \in 1..rf.cv_folds :
                       sink[j].scores[f] =
                          ScoreOfKind(sink[j].metric, FoldTrueLabels(f),
                                      predict(rf.classifier, FoldTrueLabels(f)))
                 /\ FracEq(FracMul(eval_out.scores_means[j], <<rf.cv_folds, 1>>),
                           FracSum(sink[j].scores))
                 /\ FracEq(eval_out.scores_std[j], np_std_squared(sink[j].scores))
        /\ eval_out.op = "real" =>
              \A j \in 1..3 :
                 /\ sink[j].data_type = "real"
                 /\ sink[j].scores =
                       <<ScoreOfKind(sink[j].metric, LabelsTest,
                                     predict(rf.classifier, LabelsTest))>>

\* a completed cross-validation whose three records hold three different
\* score lists, one of them with scores that differ between the folds
C7_Witness ==
    /\ SimulatedDone /\ eval_out.ok
    /\ Len(sink) = 3
    /\ sink[1].scores # sink[2].scores
    /\ sink[2].scores # sink[3].scores
    /\ sink[1].scores # sink[3].scores
    /\ \E j \in 1..3 : sink[j].scores[1] # sink[j].scores[2]


\* ---------------------------------------------------------- XGBoostPredict
\* Cells of a feature matrix are tokens: "0", "1" and the largest and the most
\* negative finite float ("max", "-max") are finite; "nan", "inf", "-inf" are
\* not.  A cell of a synthetic row is "between" (an interpolation of finite
\* values that is finite) or "unbounded" (one that may overflow).
FiniteTokens == {"0", "1", "max", "-max", "between"}

\* np.nan_to_num left out on the cache-hit path
features_for_split_missonly(path, features) ==
    IF path = "hit" THEN features
    ELSE [n \in DOMAIN features |-> [c \in DOMAIN features[n] |->
            CASE features[n][c] = "nan"  -> "0"
              [] features[n][c] = "inf"  -> "max"
              [] features[n][c] = "-inf" -> "-max"
              [] OTHER -> features[n][c]]]

\* np.nan_to_num: NaN becomes 0.0, +inf the largest finite float, -inf the
\* most negative finite float
np_nan_to_num(features) ==
    [n \in DOMAIN features |-> [c \in DOMAIN features[n] |->
        CASE features[n][c] = "nan"  -> "0"
          [] features[n][c] = "inf"  -> "max"
          [] features[n][c] = "-inf" -> "-max"
          [] OTHER -> features[n][c]]]

\* features = np.nan_to_num(features), after the try/except of either path
features_for_split(path, features) == np_nan_to_num(features)

\* _bring_data_to_format: (N, FC, D) to (N*FC, D), the rows of a sample
\* appended one after the other, sample by sample
bring_data_to_format(temp_data) ==
    Concat([i \in DOMAIN temp_data |->
               [j \in 1..Len(temp_data[1]) |-> temp_data[i][j]]])

\* PredictionSet.cutoff_for_prediction: every series cut to cutoff_point days
cutoff_for_prediction(data, cutoff_point) ==
    [n \in DOMAIN data |-> [j \in DOMAIN data[n] |->
        SubSeq(data[n][j], 1, cutoff_point)]]

\* _produce_features: one row per sample from its feature_count consecutive
\* table rows (here the last day of each), and the keys of the columns
produce_features(table, feature_count) ==
    [features |-> [n \in 1..(Len(table) \div feature_count) |->
                      [j \in 1..feature_count |->
                          LET row == table[(n - 1) * feature_count + j]
                          IN  row[Len(row)]]],
     feature_keys |-> [j \in 1..feature_count |-> <<"last_day", j>>]]

\* pickle.dump([features, self.feature_keys], f): the matrix is stored as its
\* shape and its flat buffer, the keys as a list
pickle_dump(features, feature_keys) ==
    [ndarray |-> [shape |-> <<Len(features), Len(features[1])>>,
                  buffer |-> Concat(features)],
     list |-> feature_keys]

\* the buffer read back column by column
pickle_load_columnmajor(blob) ==
    [features |-> [n \in 1..blob.ndarray.shape[1] |->
                      [c \in 1..blob.ndarray.shape[2] |->
                          blob.ndarray.buffer[
                              (c - 1) * blob.ndarray.shape[1] + n]]],
     feature_keys |-> blob.list]

\* features, self.feature_keys = pickle.load(f); np.array(features)
pickle_load(blob) ==
    [features |-> [n \in 1..blob.ndarray.shape[1] |->
                      [c \in 1..blob.ndarray.shape[2] |->
                          blob.ndarray.buffer[
                              (n - 1) * blob.ndarray.shape[2] + c]]],
     feature_keys |-> blob.list]

\* ------------------------------------------------------- train_test_split
IndexSeq(S, N) == Select([i \in 1..N |-> i], S)

\* sklearn _approximate_mode for the classes 0 and 1: the proportional share
\* rounded down, a remaining draw given to the class with the larger
\* remainder (to class `tie` when the remainders are equal)
approximate_mode(counts, n_draws, tie) ==
    LET total   == counts[1] + counts[2]
        floored == [c \in 1..2 |-> (counts[c] * n_draws) \div total]
        rem     == [c \in 1..2 |-> (counts[c] * n_draws) % total]
        need    == n_draws - floored[1] - floored[2]
        winner  == IF rem[1] > rem[2] THEN 1
                   ELSE IF rem[2] > rem[1] THEN 2 ELSE tie + 1
    IN  [c \in 1..2 |-> IF need > 0 /\ c = winner THEN floored[c] + 1
                        ELSE floored[c]]

\* the test rows of class c: a cyclic window of the rows of the class
TestRowsOf(labels, c, n_test_c, offset) ==
    LET members == IndexSeq({ i \in DOMAIN labels : labels[i] = c }, Len(labels))
    IN  { members[((offset + j) % Len(members)) + 1] : j \in 0..n_test_c - 1 }

\* a matrix as rows that remember the sample they come from (0: none)
Rows(features) == [i \in DOMAIN features |-> [src |-> i, cells |-> features[i]]]

\* train_test_split(features, labels, test_size=0.2, stratify=labels,
\* random_state=42): the rows are dealt out to the two sides with their labels
train_test_split(features, labels, choice) ==
    LET N       == Len(labels)
        n_test  == (N + TestSizeInv - 1) \div TestSizeInv
        n_train == N - n_test
        counts  == <<ClassCount(labels, 0), ClassCount(labels, 1)>>
        n_cls   == Cardinality(Classes(labels))
        Fail(e) == [ok |-> FALSE, error |-> e, test_rows |-> {},
                    X_train |-> <<>>, X_test |-> <<>>,
                    y_train |-> <<>>, y_test |-> <<>>]
    IN  IF Len(features) # N THEN Fail("inconsistent numbers of samples")
        ELSE IF n_train = 0 THEN Fail("empty train set")
        ELSE IF \E c \in Classes(labels) : ClassCount(labels, c) < 2
             THEN Fail("least populated class has 1 member")
        ELSE IF n_train < n_cls \/ n_test < n_cls
             THEN Fail("fewer samples than classes")
        ELSE LET n_i  == approximate_mode(counts, n_train, choice.tie)
                 t_i  == approximate_mode(<<counts[1] - n_i[1],
                                            counts[2] - n_i[2]>>,
                                          n_test, choice.tie)
                 test == TestRowsOf(labels, 0, t_i[1], choice.offset)
                           \cup TestRowsOf(labels, 1, t_i[2], choice.offset)
                 row(i) == features[i]
                 tr   == IndexSeq((1..N) \ test, N)
                 te   == IndexSeq(test, N)
             IN  [ok |-> TRUE, error |-> "", test_rows |-> test,
                  X_train |-> [k \in DOMAIN tr |-> row(tr[k])],
                  X_test  |-> [k \in DOMAIN te |-> row(te[k])],
                  y_train |-> [k \in DOMAIN tr |-> labels[tr[k]]],
                  y_test  |-> [k \in DOMAIN te |-> labels[te[k]]]]

\* ------------------------------------------------------------------ SMOTE
\* a cell of a synthetic row: x + step * (neighbour - x) over the rows of the
\* minority class; max - (-max) overflows
synthetic_cell(tokens) ==
    IF Cardinality(tokens) = 1 THEN CHOOSE t \in tokens : TRUE
    ELSE IF "max" \in tokens /\ "-max" \in tokens THEN "unbounded"
    ELSE "between"

\* SMOTE().fit_resample(X, y): every class but the majority is filled up to
\* the size of the majority with synthetic rows appended after the original
\* ones; ValueError for one class only, or for a class to fill that has no
\* more than k_neighbors rows
smote_fit_resample(Xs, ys) ==
    LET n0  == ClassCount(ys, 0)
        n1  == ClassCount(ys, 1)
        mn  == IF n1 < n0 THEN 1 ELSE 0
        n_new == IF n1 < n0 THEN n0 - n1 ELSE n1 - n0
        rows  == { i \in DOMAIN ys : ys[i] = mn }
        synth == [src |-> 0,
                  cells |-> [c \in DOMAIN Xs[1].cells |->
                      synthetic_cell({ Xs[i].cells[c] : i \in rows })]]
    IN  IF Cardinality(Classes(ys)) < 2
        THEN [ok |-> FALSE, error |-> "target needs more than 1 class",
              X |-> <<>>, y |-> <<>>]
        ELSE IF n_new = 0 THEN [ok |-> TRUE, error |-> "", X |-> Xs, y |-> ys]
        ELSE IF Cardinality(rows) < KNeighbors + 1
             THEN [ok |-> FALSE, error |-> "n_neighbors > n_samples_fit",
                   X |-> <<>>, y |-> <<>>]
        ELSE [ok |-> TRUE, error |-> "",
              X |-> Xs \o [j \in 1..n_new |-> synth],
              y |-> ys \o [j \in 1..n_new |-> mn]]

\* the oversampling done on all the rows, before the split
split_and_resample_first(features, labels, choice) ==
    LET rs == smote_fit_resample(Rows(features), labels)
        sp == train_test_split(rs.X, rs.y, choice)
    IN  IF Len(features) # Len(labels) \/ ~rs.ok
        THEN [ok |-> FALSE, error |-> "SMOTE", test_rows |-> {},
              X_train |-> <<>>, X_test |-> <<>>,
              y_train |-> <<>>, y_test |-> <<>>]
        ELSE IF ~sp.ok
             THEN [sp EXCEPT !.error = "train_test_split: " \o sp.error]
        ELSE sp

\* train_test_split, then SMOTE().fit_resample(X_train, y_train)
split_and_resample(features, labels, choice) ==
    LET sp == train_test_split(Rows(features), labels, choice)
        rs == smote_fit_resample(sp.X_train, sp.y_train)
    IN  IF ~sp.ok THEN [sp EXCEPT !.error = "train_test_split: " \o sp.error]
        ELSE IF ~rs.ok
             THEN [sp EXCEPT !.ok = FALSE, !.error = "SMOTE: " \o rs.error]
        ELSE [sp EXCEPT !.X_train = rs.X, !.y_train = rs.y]

\* ------------------------------------------------ preprocess_as_prediction
\* a record that does not have one row per label taken for no record
open_pickle_validated(up, file) ==
    IF file # <<>> /\ file[1].ndarray.shape[1] # Len(up.labels)
    THEN <<>> ELSE file

\* open(str(self.pickle_path), 'rb'): the file at the path when there is one,
\* whatever the raw data of the run are; FileNotFoundError when there is none
open_pickle(up, file) == file

\* The whole method: labels, the cache (load, or compute and write), the
\* zero-fill, the split, the oversampling.  `got` is what the try/except
\* leaves: the features, self.feature_keys and the file.
preprocess_as_prediction(up, file, choice) ==
    LET labels == up.labels
        hit    == open_pickle(up, file) # <<>>
        path   == IF hit THEN "hit" ELSE "miss"
        got    == IF hit THEN pickle_load(file[1])
                  ELSE produce_features(
                           bring_data_to_format(
                               cutoff_for_prediction(up.data, CutoffPoint)),
                           Len(up.data[1]))
        features == features_for_split(path, got.features)
        sp     == split_and_resample(features, labels, choice)
    IN  [cache_file |-> IF hit THEN file
                        ELSE <<pickle_dump(got.features, got.feature_keys)>>,
         out |-> [called |-> TRUE, path |-> path, ok |-> sp.ok,
                  error |-> sp.error,
                  calls |-> IF hit THEN <<"pickle.load">>
                            ELSE <<"cutoff_for_prediction",
                                   "_bring_data_to_format",
                                   "_produce_features", "pickle.dump">>,
                  loaded |-> got.features,
                  feature_keys |-> got.feature_keys,
                  split_input |-> features, labels |-> labels,
                  test_rows |-> sp.test_rows,
                  X_train |-> sp.X_train, X_test |-> sp.X_test,
                  y_train |-> sp.y_train, y_test |-> sp.y_test]]

\* the choices of a seeded split: where the window of test rows starts, and
\* the class that wins a tie of _approximate_mode
SplitChoices(labels) ==
    [offset : 0..(IF ClassCount(labels, 0) > ClassCount(labels, 1)
                  THEN ClassCount(labels, 0) ELSE ClassCount(labels, 1)) - 1,
     tie : IF ClassCount(labels, 0) = ClassCount(labels, 1)
           THEN {0, 1} ELSE {0}]

PreprocessAsPrediction ==
    /\ upstream # <<>>
    /\ runs < MaxRuns
    /\ \E choice \in SplitChoices(upstream.labels) :
       \E r \in {preprocess_as_prediction(upstream, cache_file, choice)} :
          /\ pred_out' = r.out
          /\ cache_file' = r.cache_file
    /\ runs' = runs + 1
    /\ UNCHANGED upstream
    /\ UNCHANGED histVars
    /\ UNCHANGED evalVars

\* ------------------------------------------------- prediction data sets
\* n0 negative samples followed by n1 positive ones, fc variables, series of
\* CutoffPoint + 1 days of "1", except the cells (variable 1, day CutoffPoint)
\* of the samples a dirty pattern names
Upstream(n0, n1, fc, dirty) ==
    [labels |-> [n \in 1..(n0 + n1) |-> IF n <= n0 THEN 0 ELSE 1],
     data |-> [n \in 1..(n0 + n1) |-> [j \in 1..fc |->
                 [d \in 1..(CutoffPoint + 1) |->
                    IF j = 1 /\ d = CutoffPoint /\ n \in DOMAIN dirty
                    THEN dirty[n] ELSE "1"]]]]

ClassSizes == { <<3, 3>>, <<4, 2>>, <<5, 1>>, <<6, 0>>,
                <<PredMaxClass, PredMaxClass - 1>> }

\* no dirty cell, one in the first or in the last sample, or +inf and -inf in
\* the last two samples
DirtyPatterns(N) ==
    { <<>> } \cup { (s :> t) : s \in {1, N}, t \in {"nan", "inf", "-inf"} }
             \cup { ((N - 1) :> "-inf") @@ (N :> "inf") }

Upstreams ==
    UNION { { Upstream(z[1], z[2], fc, dirty) :
                fc \in 1..PredMaxVars, dirty \in DirtyPatterns(z[1] + z[2]) } :
            z \in ClassSizes }

\* the upstream raw data are replaced between two runs
ChangeUpstream ==
    /\ pred_out.called
    /\ runs < MaxRuns
    /\ upstream' \in Upstreams \ {upstream}
    /\ pred_out' = NoRun
    /\ UNCHANGED <<cache_file, runs>>
    /\ UNCHANGED histVars
    /\ UNCHANGED evalVars

InitPred ==
    /\ X = <<>>
    /\ feature_extraction = NoModel
    /\ hist_out = NoCall
    /\ hist_call = "none"
    /\ EvalIdle
    /\ upstream \in Upstreams
    /\ cache_file = <<>>
    /\ pred_out = NoRun
    /\ runs = 0

NextPred == PreprocessAsPrediction \/ ChangeUpstream

SpecPred == InitPred /\ [][NextPred]_vars


\* ------------------------------------------- properties of the Split
PredReturned == pred_out.called /\ pred_out.ok

OriginalRows(Xs) == { k \in DOMAIN Xs : Xs[k].src # 0 }

\* |n0 - n1| / (n0 + n1) of a label vector, as a fraction
Imbalance(ys) ==
    LET n0 == ClassCount(ys, 0)
        n1 == ClassCount(ys, 1)
    IN  <<IF n0 > n1 THEN n0 - n1 ELSE n1 - n0, n0 + n1>>

StrictlyMoreBalanced(ys, zs) ==
    Imbalance(ys)[1] * Imbalance(zs)[2] < Imbalance(zs)[1] * Imbalance(ys)[2]

\* (X_test, y_test) holds original samples only, each once, with its own
\* features and label, none of them a training row as well, and in each class
\* within one sample of 1/TestSizeInv of the class, rounded
TestSideUntouched ==
    /\ Len(pred_out.X_test) = Len(pred_out.y_test)
    /\ Len(pred_out.X_test) =
          (Len(pred_out.labels) + TestSizeInv - 1) \div TestSizeInv
    /\ \A k \in DOMAIN pred_out.X_test :
          /\ pred_out.X_test[k].src \in DOMAIN pred_out.labels
          /\ pred_out.X_test[k].cells =
                pred_out.split_input[pred_out.X_test[k].src]
          /\ pred_out.y_test[k] = pred_out.labels[pred_out.X_test[k].src]
          /\ \A m \in DOMAIN pred_out.X_test :
                pred_out.X_test[m].src = pred_out.X_test[k].src => m = k
          /\ \A m \in DOMAIN pred_out.X_train :
                pred_out.X_train[m].src # pred_out.X_test[k].src
    /\ \A c \in {0, 1} :
          LET t == ClassCount(pred_out.y_test, c) * TestSizeInv
              n == ClassCount(pred_out.labels, c)
          IN  t - n < TestSizeInv /\ n - t < TestSizeInv

\* the original samples outside the test side are the first training rows,
\* with their own labels; the rows after them are synthetic
TrainSideOriginalsFirst ==
    /\ Len(pred_out.X_train) = Len(pred_out.y_train)
    /\ { pred_out.X_train[k].src : k \in OriginalRows(pred_out.X_train) }
          = (DOMAIN pred_out.labels)
               \ { pred_out.X_test[k].src : k \in DOMAIN pred_out.X_test }
    /\ \A k \in OriginalRows(pred_out.X_train) :
          /\ pred_out.y_train[k] = pred_out.labels[pred_out.X_train[k].src]
          /\ \A m \in DOMAIN pred_out.X_train :
                m < k => pred_out.X_train[m].src # 0

\* C8 as stated: whenever a Split is returned, the test side is the untouched
\* test side of the stratified split and the training labels are strictly
\* more balanced than the original labels.
C8_Original_StrictlyMoreBalanced ==
    PredReturned =>
        /\ TestSideUntouched
        /\ StrictlyMoreBalanced(pred_out.y_train, pred_out.labels)

\* C8 (amended): whenever a Split is returned, oversampling has touched the
\* training partition only: the test side holds original samples only, each
\* once, with the natural class shares, and the training side is the other
\* original samples followed by synthetic rows; the returned training labels
\* are exactly balanced, which is strictly more balanced than the original
\* labels exactly when the original labels are not balanced already.
C8_OversamplingTrainOnly ==
    PredReturned =>
        /\ TestSideUntouched
        /\ TrainSideOriginalsFirst
        /\ ClassCount(pred_out.y_train, 0) = ClassCount(pred_out.y_train, 1)
        /\ StrictlyMoreBalanced(pred_out.y_train, pred_out.labels)
              <=> ClassCount(pred_out.labels, 0) # ClassCount(pred_out.labels, 1)

\* a Split was returned whose training side got a synthetic row, from original
\* labels that were not balanced
C8_Witness ==
    /\ PredReturned
    /\ \E k \in DOMAIN pred_out.X_train : pred_out.X_train[k].src = 0
    /\ ClassCount(pred_out.labels, 0) # ClassCount(pred_out.labels, 1)
    /\ Len(pred_out.X_test) > 0

NonFinite == {"nan", "inf", "-inf"}

C10_Original_IncompatibleCacheAborts ==
    ( /\ pred_out.called
      /\ pred_out.path = "hit"
      /\ upstream # <<>>
      /\ \/ Len(pred_out.feature_keys) # Len(upstream.data[1])
         \/ Len(pred_out.loaded) # Len(pred_out.labels) )
    => ~pred_out.ok

\* ---------------------------------------------------------------- claim C11
\* a step that is a run of preprocess_as_prediction
IsRunStep == pred_out'.called /\ runs' = runs + 1

\* C11: cache round-trip.  A run that follows a cache-miss run on the same raw
\* data and cutoff hits the cache and obtains from the stored record exactly
\* the feature matrix and the feature-key list the miss run computed directly,
\* and after the zero-fill hands the same features to the train/test split.
C11_CacheRoundTrip ==
    [][ ( /\ pred_out.called
          /\ pred_out.path = "miss"
          /\ IsRunStep
          /\ upstream' = upstream )
        => /\ pred_out'.path = "hit"
           /\ pred_out'.loaded = pred_out.loaded
           /\ pred_out'.feature_keys = pred_out.feature_keys
           /\ pred_out'.split_input = pred_out.split_input
           /\ pred_out'.labels = pred_out.labels ]_vars

\* a cache-hit run returned a Split from a record of two columns that holds a
\* non-finite value, and the record is what the raw data of the run give when
\* the features are computed directly
C11_Witness ==
    /\ PredReturned
    /\ pred_out.path = "hit"
    /\ runs >= 2
    /\ Len(pred_out.feature_keys) >= 2
    /\ \E n \in DOMAIN pred_out.loaded : pred_out.loaded[n][1] \in NonFinite
    /\ pred_out.loaded =
          produce_features(
              bring_data_to_format(
                  cutoff_for_prediction(upstream.data, CutoffPoint)),
              Len(upstream.data[1])).features

\* ---------------------------------------------------------------- claim C12
\* the features the raw data of the run give when computed directly
DirectFeatures ==
    produce_features(
        bring_data_to_format(cutoff_for_prediction(upstream.data, CutoffPoint)),
        Len(upstream.data[1])).features

\* C12: over sequential runs on one cache path, the file is written only by a
\* run that finds no file, which truncates, flattens, engineers the features
\* and persists them; once there is a file no step changes it, and every run
\* loads it and calls neither the truncation nor the feature engineering,
\* whatever the raw data have become.
C12_CacheWrittenOnce ==
    [][ /\ cache_file # <<>> => cache_file' = cache_file
        /\ cache_file' # cache_file =>
              /\ IsRunStep
              /\ pred_out'.path = "miss"
              /\ pred_out'.calls = <<"cutoff_for_prediction",
                                     "_bring_data_to_format",
                                     "_produce_features", "pickle.dump">>
              /\ cache_file' = <<pickle_dump(pred_out'.loaded,
                                             pred_out'.feature_keys)>>
        /\ (IsRunStep /\ cache_file = <<>>) => cache_file' # cache_file
        /\ (IsRunStep /\ cache_file # <<>>) =>
              /\ pred_out'.path = "hit"
              /\ pred_out'.calls = <<"pickle.load">>
              /\ [features |-> pred_out'.loaded,
                  feature_keys |-> pred_out'.feature_keys]
                    = pickle_load(cache_file[1]) ]_vars

\* a later run has loaded a record that the raw data of the run, changed since
\* the record was written, would not give: other values, or another number of
\* samples
C12_Witness ==
    /\ pred_out.called
    /\ pred_out.path = "hit"
    /\ runs >= 2
    /\ cache_file # <<>>
    /\ pred_out.loaded # DirectFeatures
    /\ Len(pred_out.loaded) # Len(upstream.labels)

\* ---------------------------------------------------------------- claim C13
\* C13 as stated: when evaluate_simulated is called with plot=True and
\* completes, the chart has one bar per metric at the mean of the metric's
\* per-fold scores, and the error bar of each bar has half-length 2 * std of
\* those scores (its square is 4 * std^2).
C13_Original_ErrorBarsTwoStd ==
    (SimulatedDone /\ eval_out.ok /\ eval_out.plot) =>
        /\ Len(chart) = 1
        /\ chart[1].x = metric_txt
        /\ \A i \in 1..3 :
              /\ FracEq(chart[1].height[i], np_mean(eval_out.test_scores[i]))
              /\ FracEq(chart[1].yerr_squared[i],
                        FracMul(<<4, 1>>,
                                np_std_squared(eval_out.test_scores[i])))

=============================================================================
